---- MODULE Spec2Model ----
(***************************************************************************)
(* Model of reference.py: affine point arithmetic on the curve             *)
(* y^2 = x^3 + 7 over a prime field, and the BIP-340 style Schnorr adaptor *)
(* pre-signature built on it.                                              *)
(*                                                                         *)
(* The curve equation, the formulas, the 256-iteration double-and-add      *)
(* loop, the 32-byte big-endian encodings and the 65-byte signature layout *)
(* are those of the source.  The field prime p, the group order n and the  *)
(* generator G are a small instance of the same family (p = 3 mod 4,       *)
(* p = 1 mod 3, prime group order n < p, G with even y), because the       *)
(* 256-bit parameters of the source are outside the integer range of the   *)
(* model checker.  SHA-256 is modelled as an oracle: each digest is chosen *)
(* nondeterministically from a bounded set of 32-byte strings.             *)
(***************************************************************************)
EXTENDS Integers, Sequences, FiniteSets, TLC

\* ------------------------------------------------------------------------
\* Curve parameters (reference.py:14-19), small instance.
p == 43
n == 31
G == <<2, 12>>

\* The point at infinity is None in the source; here the empty tuple.
None == <<>>

\* Number of iterations of the double-and-add loop, reference.py:56.
range256 == 256

\* Length of an encoded integer, reference.py:63.
ByteLen == 32

\* ------------------------------------------------------------------------
\* Python's three-argument pow(b, e, m) for e >= 0: square-and-multiply.
RECURSIVE powacc(_, _, _, _)
powacc(acc, b, e, m) ==
    IF e = 0 THEN acc % m
    ELSE powacc(IF e % 2 = 1 THEN (acc * b) % m ELSE acc, (b * b) % m, e \div 2, m)

pow(b, e, m) == powacc(1, b % m, e, m)

is_infinite(P) == P = None

x(P) == P[1]

y(P) == P[2]

\* (k >> i) for k >= 0.
RECURSIVE shr(_, _)
shr(k, i) == IF i = 0 \/ k = 0 THEN k ELSE shr(k \div 2, i - 1)

\* Mutant: the doubling slope with 2*x^2 for 3*x^2.
point_add_slope(P1, P2) ==
    IF P1 = None THEN P2
    ELSE IF P2 = None THEN P1
    ELSE IF x(P1) = x(P2) /\ y(P1) # y(P2) THEN None
    ELSE LET lam == IF P1 = P2
                    THEN (2 * x(P1) * x(P1) * pow(2 * y(P1), p - 2, p)) % p
                    ELSE ((y(P2) - y(P1)) * pow(x(P2) - x(P1), p - 2, p)) % p
             x3 == (lam * lam - x(P1) - x(P2)) % p
         IN <<x3, (lam * (x(P1) - x3) - y(P1)) % p>>

\* Mutant: the test for inverse points left out.
point_add_no_inverse(P1, P2) ==
    IF P1 = None THEN P2
    ELSE IF P2 = None THEN P1
    ELSE LET lam == IF P1 = P2
                    THEN (3 * x(P1) * x(P1) * pow(2 * y(P1), p - 2, p)) % p
                    ELSE ((y(P2) - y(P1)) * pow(x(P2) - x(P1), p - 2, p)) % p
             x3 == (lam * lam - x(P1) - x(P2)) % p
         IN <<x3, (lam * (x(P1) - x3) - y(P1)) % p>>

point_add(P1, P2) ==
    IF P1 = None THEN P2
    ELSE IF P2 = None THEN P1
    ELSE IF x(P1) = x(P2) /\ y(P1) # y(P2) THEN None
    ELSE LET lam == IF P1 = P2
                    THEN (3 * x(P1) * x(P1) * pow(2 * y(P1), p - 2, p)) % p
                    ELSE ((y(P2) - y(P1)) * pow(x(P2) - x(P1), p - 2, p)) % p
             x3 == (lam * lam - x(P1) - x(P2)) % p
         IN <<x3, (lam * (x(P1) - x3) - y(P1)) % p>>

\* Mutant: the scalar's bits taken from bit 1 on.
point_mul_step_shifted(R, P, k, i) ==
    <<IF shr(k, i + 1) % 2 = 1 THEN point_add(R, P) ELSE R, point_add(P, P)>>

\* One iteration of the loop of point_mul: the new (R, P).
point_mul_step(R, P, k, i) ==
    <<IF shr(k, i) % 2 = 1 THEN point_add(R, P) ELSE R, point_add(P, P)>>

\* Iterations i .. j-1 of the loop of point_mul applied to st = <<R, P>>,
\* split in halves to keep the evaluation depth logarithmic.  Len(st) makes
\* the evaluation of st happen before the next iteration starts.
RECURSIVE point_mul_loop(_, _, _, _)
point_mul_loop(st, k, i, j) ==
    IF j = i \/ Len(st) # 2 THEN st
    ELSE IF j = i + 1 THEN point_mul_step(st[1], st[2], k, i)
    ELSE point_mul_loop(point_mul_loop(st, k, i, (i + j) \div 2), k, (i + j) \div 2, j)

point_mul(P, k) == point_mul_loop(<<None, P>>, k, 0, range256)[1]

\* The table of point_mul over the group and the scalars 0 .. n, computed once
\* with point_mul (@@ makes it an explicit function); mul(P, k) is
\* point_mul(P, k), read from the table when it is there.
GroupPoints ==
    {None} \cup {P \in (0..p-1) \X (0..p-1) : (P[2] * P[2] - P[1] * P[1] * P[1] - 7) % p = 0}

point_mul_table == [a \in GroupPoints \X (0..n) |-> point_mul(a[1], a[2])] @@ <<>>

mul(P, k) ==
    IF P \in GroupPoints /\ k \in 0..n THEN point_mul_table[<<P, k>>]
    ELSE point_mul(P, k)

\* ------------------------------------------------------------------------
\* Byte strings are sequences of integers 0 .. 255.

\* x.to_bytes(len, byteorder="big")
RECURSIVE to_bytes(_, _)
to_bytes(v, len) ==
    IF len = 0 THEN <<>> ELSE Append(to_bytes(v \div 256, len - 1), v % 256)

bytes_from_int(v) == to_bytes(v, ByteLen)

bytes_from_point(P) == bytes_from_int(x(P))

\* a ^ b on non-negative integers
RECURSIVE bxor(_, _)
bxor(a, b) ==
    IF a = 0 THEN b
    ELSE IF b = 0 THEN a
    ELSE 2 * bxor(a \div 2, b \div 2) + ((a + b) % 2)

Min(a, b) == IF a <= b THEN a ELSE b

xor_bytes(b0, b1) == [i \in 1..Min(Len(b0), Len(b1)) |-> bxor(b0[i], b1[i])]

lift_x(x0) ==
    IF x0 >= p THEN None
    ELSE LET y_sq == (pow(x0, 3, p) + 7) % p
             y0 == pow(y_sq, (p + 1) \div 4, p)
         IN IF pow(y0, 2, p) # y_sq THEN None
            ELSE <<x0, IF y0 % 2 = 0 THEN y0 ELSE p - y0>>

\* Mutant: the requested parity ignored for an odd root.
lift_x_R0_even(x0, parity) ==
    IF x0 >= p THEN None
    ELSE LET y_sq == (pow(x0, 3, p) + 7) % p
             y0 == pow(y_sq, (p + 1) \div 4, p)
         IN IF pow(y0, 2, p) # y_sq THEN None
            ELSE IF parity = 2 THEN <<x0, IF y0 % 2 = 0 THEN y0 ELSE p - y0>>
            ELSE <<x0, IF y0 % 2 = 0 THEN p - y0 ELSE p - y0>>

lift_x_R0(x0, parity) ==
    IF x0 >= p THEN None
    ELSE LET y_sq == (pow(x0, 3, p) + 7) % p
             y0 == pow(y_sq, (p + 1) \div 4, p)
         IN IF pow(y0, 2, p) # y_sq THEN None
            ELSE IF parity = 2 THEN <<x0, IF y0 % 2 = 0 THEN y0 ELSE p - y0>>
            ELSE <<x0, IF y0 % 2 = 0 THEN p - y0 ELSE y0>>

\* int.from_bytes(b, byteorder="big")
RECURSIVE int_from_bytes(_)
int_from_bytes(b) ==
    IF Len(b) = 0 THEN 0
    ELSE 256 * int_from_bytes(SubSeq(b, 1, Len(b) - 1)) + b[Len(b)]

\* Mutant: the parity test inverted.
has_even_y_odd(P) == y(P) % 2 = 1

has_even_y(P) == y(P) % 2 = 0

\* Mutant: the two parity bytes swapped.
parity_from_point_swapped(P) == IF has_even_y(P) THEN <<3>> ELSE <<2>>

parity_from_point(P) == IF has_even_y(P) THEN <<2>> ELSE <<3>>

\* Mutant: the upper bound off by one.
seckey_in_range_upto_n(d0) == 1 <= d0 /\ d0 <= n

\* The range check of the secret key: "1 <= d0 <= n - 1".
seckey_in_range(d0) == 1 <= d0 /\ d0 <= n - 1

\* The stub of the source: every pre-signature is accepted.
schnorr_pre_verify(msg, T, pubkey, pre_sig) == TRUE

\* ------------------------------------------------------------------------
\* Bounds of the inputs and of the digests the hash oracle may answer.
MaxSecKey == 32
MaxT == 2
MaxAuxDigest == 1
MaxNonceDigest == 32
MaxChalDigest == 3

\* Byte strings of one short, the right and one long length.
Lengths == {ByteLen - 1, ByteLen, ByteLen + 1}

Msgs == {[i \in 1..len |-> 7] : len \in Lengths}

AuxRands == {to_bytes(1, len) : len \in Lengths}

SecKeys == {bytes_from_int(v) : v \in 0..MaxSecKey}

\* Adaptor points t*G and their negations; t = 0 is the identity.
TPoints == {mul(G, t) : t \in 0..MaxT} \cup {mul(G, n - t) : t \in 1..MaxT}

\* tagged_hash: SHA-256 is an oracle, its answer one of these 32-byte strings.
tagged_hash(tag) ==
    {bytes_from_int(h) : h \in 0..(CASE tag = "BIP0340/aux" -> MaxAuxDigest
                                     [] tag = "BIP0340/nonce" -> MaxNonceDigest
                                     [] tag = "BIP0340/challenge" -> MaxChalDigest)}

VARIABLES
    pc,     \* "idle", or which call has just completed (or is running: "mul")
    sign,   \* the last call of schnorr_pre_sign: arguments, locals, outcome
    very,   \* the last call of schnorr_pre_verify
    pub,    \* the last call of pubkey_gen
    add,    \* the last call of point_add
    lift,   \* the last call of lift_x or lift_x_R0
    loop    \* the call of point_mul: arguments, loop index i, locals R and P

vars == <<pc, sign, very, pub, add, lift, loop>>

NoCall == [fn |-> "none"]

\* What the failure of "assert not is_infinite(P)" in x() raises: the
\* AssertionError, or with assertions compiled out (python -O) the TypeError
\* of subscripting None.
AssertOutcomes == {"AssertionError", "TypeError"}

Init ==
    /\ pc = "idle"
    /\ sign = NoCall
    /\ very = NoCall
    /\ pub = NoCall
    /\ add = NoCall
    /\ lift = NoCall
    /\ loop = NoCall

\* schnorr_pre_sign(msg, seckey, aux_rand, T), one call from entry to its
\* return or raise.  "line" is the source line that ends the call.  A local
\* of the source is bound by \E over a singleton, so that it is computed once.
PreSign ==
    /\ pc = "idle"
    /\ pc' = "signed"
    /\ UNCHANGED <<very, pub, add, lift, loop>>
    /\ \E msg \in Msgs, seckey \in SecKeys, aux_rand \in AuxRands, T \in TPoints :
       \E args \in {[fn |-> "schnorr_pre_sign", msg |-> msg, seckey |-> seckey,
                     aux_rand |-> aux_rand, T |-> T]} :
        IF Len(msg) # 32
        THEN sign' = args @@ [status |-> "ValueError", line |-> 116]
        ELSE \E d0 \in {int_from_bytes(seckey)} :
        IF ~seckey_in_range(d0)
        THEN sign' = args @@ [status |-> "ValueError", line |-> 119]
        ELSE IF Len(aux_rand) # 32
        THEN sign' = args @@ [status |-> "ValueError", line |-> 121]
        ELSE \E P \in {mul(G, d0)} :
        IF P = None
        THEN sign' = args @@ [status |-> "AssertionError", line |-> 123]
        ELSE \E d \in {IF has_even_y(P) THEN d0 ELSE n - d0} :
             \E h_aux \in tagged_hash("BIP0340/aux") :
             \E t \in {xor_bytes(bytes_from_int(d), h_aux)} :
             \E l1 \in {args @@ [d0 |-> d0, P |-> P, d |-> d, t |-> t]} :
        IF is_infinite(T)
        THEN \E exc \in AssertOutcomes : sign' = l1 @@ [status |-> exc, line |-> 126]
        ELSE \E nonce_input \in {t \o bytes_from_point(T) \o bytes_from_point(P) \o msg} :
             \E h_nonce \in tagged_hash("BIP0340/nonce") :
             \E k0 \in {int_from_bytes(h_nonce) % n} :
             \E l2 \in {l1 @@ [nonce_input |-> nonce_input, k0 |-> k0]} :
        IF k0 = 0
        THEN sign' = l2 @@ [status |-> "RuntimeError", line |-> 128]
        ELSE \E R \in {mul(G, k0)} :
        IF R = None
        THEN sign' = l2 @@ [status |-> "AssertionError", line |-> 130]
        ELSE \E k \in {IF ~has_even_y(R) THEN n - k0 ELSE k0} :
             \E R0 \in {point_add(R, T)} :
             \E l3 \in {l2 @@ [R |-> R, k |-> k, R0 |-> R0]} :
        IF is_infinite(R0)
        THEN \E exc \in AssertOutcomes : sign' = l3 @@ [status |-> exc, line |-> 133]
        ELSE \E challenge_input \in {bytes_from_point(R0) \o bytes_from_point(P) \o msg} :
             \E h_chal \in tagged_hash("BIP0340/challenge") :
             \E e \in {int_from_bytes(h_chal) % n} :
             \E sig \in {parity_from_point(R0) \o bytes_from_point(R0)
                             \o bytes_from_int((k + e * d) % n)} :
             \E l4 \in {l3 @@ [challenge_input |-> challenge_input, e |-> e,
                               sig |-> sig]} :
        IF ~schnorr_pre_verify(msg, T, bytes_from_point(P), sig)
        THEN sign' = l4 @@ [status |-> "RuntimeError", line |-> 137]
        ELSE sign' = l4 @@ [status |-> "return", line |-> 138, ret |-> sig]

\* pubkey_gen(seckey)
PubkeyGen ==
    /\ pc = "idle"
    /\ pc' = "pubkey"
    /\ UNCHANGED <<sign, very, add, lift, loop>>
    /\ \E seckey \in SecKeys :
       \E args \in {[fn |-> "pubkey_gen", seckey |-> seckey]} :
       \E d0 \in {int_from_bytes(seckey)} :
        IF ~seckey_in_range(d0)
        THEN pub' = args @@ [status |-> "ValueError", line |-> 105]
        ELSE \E P \in {mul(G, d0)} :
        IF P = None
        THEN pub' = args @@ [status |-> "AssertionError", line |-> 107]
        ELSE pub' = args @@ [status |-> "return", line |-> 108,
                             ret |-> bytes_from_point(P)]

\* b with the lowest bit of its byte at index i flipped.
FlipBit(b, i) == [b EXCEPT ![i] = bxor(b[i], 1)]

\* The pre-signature handed to verification: the one just returned, or that
\* one with a bit of s or of the x-coordinate of R0 flipped.
Tampered(sig) ==
    {[kind |-> "none", pre_sig |-> sig],
     [kind |-> "s", pre_sig |-> FlipBit(sig, 1 + 2 * ByteLen)],
     [kind |-> "R0.x", pre_sig |-> FlipBit(sig, 1 + ByteLen)]}

\* schnorr_pre_verify(msg, T, pubkey, pre_sig) on the outcome of the last
\* schnorr_pre_sign, with the public key of its secret key.
PreVerify ==
    /\ pc = "signed"
    /\ sign.status = "return"
    /\ pc' = "verified"
    /\ UNCHANGED <<sign, pub, add, lift, loop>>
    /\ \E tp \in Tampered(sign.ret) :
        very' = [fn |-> "schnorr_pre_verify", msg |-> sign.msg, T |-> sign.T,
                 pubkey |-> bytes_from_point(sign.P), pre_sig |-> tp.pre_sig,
                 kind |-> tp.kind, status |-> "return", line |-> 141,
                 ret |-> schnorr_pre_verify(sign.msg, sign.T,
                                            bytes_from_point(sign.P), tp.pre_sig)]

\* The caller has taken the outcome; the next call starts from scratch.
Done ==
    /\ pc # "idle"
    /\ pc = "mul" => loop.i = range256
    /\ pc' = "idle"
    /\ sign' = NoCall
    /\ very' = NoCall
    /\ pub' = NoCall
    /\ add' = NoCall
    /\ lift' = NoCall
    /\ loop' = NoCall

Next == PreSign \/ PubkeyGen \/ PreVerify \/ Done

Spec == Init /\ [][Next]_vars

\* ------------------------------------------------------------------------
\* The curve layer called on its own.
MaxX == 45
MaxScalar == 31

\* point_add(P1, P2)
PointAdd ==
    /\ pc = "idle"
    /\ pc' = "added"
    /\ UNCHANGED <<sign, very, pub, lift, loop>>
    /\ \E P1 \in GroupPoints, P2 \in GroupPoints :
        add' = [fn |-> "point_add", P1 |-> P1, P2 |-> P2, ret |-> point_add(P1, P2)]

\* lift_x(x)
LiftX ==
    /\ pc = "idle"
    /\ pc' = "lifted"
    /\ UNCHANGED <<sign, very, pub, add, loop>>
    /\ \E x0 \in 0..MaxX :
        lift' = [fn |-> "lift_x", x |-> x0, ret |-> lift_x(x0)]

\* lift_x_R0(x, parity)
LiftXR0 ==
    /\ pc = "idle"
    /\ pc' = "lifted"
    /\ UNCHANGED <<sign, very, pub, add, loop>>
    /\ \E x0 \in 0..MaxX, parity \in {2, 3} :
        lift' = [fn |-> "lift_x_R0", x |-> x0, parity |-> parity,
                 ret |-> lift_x_R0(x0, parity)]

\* point_mul(P, n): entry, R = None.
PointMul ==
    /\ pc = "idle"
    /\ pc' = "mul"
    /\ UNCHANGED <<sign, very, pub, add, lift>>
    /\ \E P \in GroupPoints, k \in 0..MaxScalar :
        loop' = [fn |-> "point_mul", P0 |-> P, n |-> k, i |-> 0, R |-> None, P |-> P]

\* point_mul(P, n): one iteration of "for i in range(256)".
PointMulStep ==
    /\ pc = "mul"
    /\ loop.i < range256
    /\ \E st \in {point_mul_step(loop.R, loop.P, loop.n, loop.i)} :
        loop' = [loop EXCEPT !.i = @ + 1, !.R = st[1], !.P = st[2]]
    /\ UNCHANGED <<pc, sign, very, pub, add, lift>>

NextCurve == PointAdd \/ LiftX \/ LiftXR0 \/ PointMul \/ PointMulStep \/ Done

SpecCurve == Init /\ [][NextCurve]_vars

\* ------------------------------------------------------------------------
\* Properties.

\* P is the identity or an affine point of y^2 = x^3 + 7 with both
\* coordinates in [0, p).
OnCurve(P) ==
    \/ P = None
    \/ /\ Len(P) = 2
       /\ P[1] \in 0..(p - 1)
       /\ P[2] \in 0..(p - 1)
       /\ (P[2] * P[2] - P[1] * P[1] * P[1] - 7) % p = 0

\* The verification equation R0 = s*G - e*P + T.
AdaptorEquation(P, R0, s, e, T) ==
    point_add(point_add(mul(G, s), mul(P, n - e)), T) = R0

Returned == pc = "signed" /\ sign.status = "return"

\* What verification decodes from a 65-byte pre-signature.
SigParity(sig) == sig[1]
SigR0x(sig) == int_from_bytes(SubSeq(sig, 2, 33))
SigS(sig) == int_from_bytes(SubSeq(sig, 34, 65))

\* The x-only public key of the signer, as pubkey_gen returns it.
SignerPubkey == bytes_from_point(mul(G, int_from_bytes(sign.seckey)))

\* C1: every pre-signature that schnorr_pre_sign returns satisfies the
\* verification equation R0 = s*G - e*P + T, with P lifted from the x-only
\* public key, R0 lifted from the signature's x-coordinate and parity byte,
\* and e the challenge of (R0, P, msg), whether R = k0*G has even or odd y.
C1_ReturnedSigVerifies ==
    Returned =>
        LET P == lift_x(int_from_bytes(SignerPubkey))
            R0 == lift_x_R0(SigR0x(sign.ret), SigParity(sign.ret))
        IN /\ P # None
           /\ R0 # None
           /\ bytes_from_point(R0) \o bytes_from_point(P) \o sign.msg
                  = sign.challenge_input
           /\ AdaptorEquation(P, R0, SigS(sign.ret), sign.e, sign.T)

\* The part of C1 the code satisfies: the equation holds when R has even y.
C1_EvenRVerifies ==
    (Returned /\ sign.R[2] % 2 = 0) =>
        AdaptorEquation(lift_x(int_from_bytes(SignerPubkey)),
                        lift_x_R0(SigR0x(sign.ret), SigParity(sign.ret)),
                        SigS(sign.ret), sign.e, sign.T)

\* The challenges the oracle may answer for the hash input (R0, P, msg) of a
\* verification: the one it answered in signing when the input is the same.
ChallengesFor(input) ==
    IF input = sign.challenge_input THEN {sign.e}
    ELSE {int_from_bytes(h) % n : h \in tagged_hash("BIP0340/challenge")}

\* The contract of verification: the decoded values satisfy
\* R0 = s*G - e*P + T.
Accepts(msg, T, pubkey, pre_sig) ==
    LET P == lift_x(int_from_bytes(pubkey))
        R0 == lift_x_R0(SigR0x(pre_sig), SigParity(pre_sig))
    IN /\ P # None
       /\ SigS(pre_sig) < n
       /\ SigR0x(pre_sig) < p
       /\ R0 # None
       /\ \E e \in ChallengesFor(bytes_from_point(R0) \o bytes_from_point(P) \o msg) :
              AdaptorEquation(P, R0, SigS(pre_sig), e, T)

\* C2: schnorr_pre_verify returns success if and only if the decoded values
\* satisfy R0 = s*G - e*P + T; a pre-signature with a bit of s or of the
\* x-coordinate of R0 flipped is rejected.
C2_VerifyIffEquation ==
    pc = "verified" =>
        /\ very.ret = Accepts(very.msg, very.T, very.pubkey, very.pre_sig)
        /\ very.kind # "none" => very.ret = FALSE

\* C3: a returned pre-signature is exactly 65 bytes, parity || x(R0) || s:
\* byte 0 is 0x02 when R0 = R + T has even y and 0x03 when it has odd y,
\* bytes 1..32 are the big-endian x-coordinate of R0 (below p), bytes 33..64
\* the big-endian scalar s = (k + e*d) mod n (below n).
C3_SigLayout ==
    Returned =>
        /\ Len(sign.ret) = 65
        /\ \A i \in 1..65 : sign.ret[i] \in 0..255
        /\ sign.R0 = point_add(mul(G, sign.k0), sign.T)
        /\ SigParity(sign.ret) = (IF sign.R0[2] % 2 = 0 THEN 2 ELSE 3)
        /\ SigR0x(sign.ret) = sign.R0[1]
        /\ SigR0x(sign.ret) < p
        /\ SigS(sign.ret) = (sign.k + sign.e * sign.d) % n
        /\ SigS(sign.ret) < n

\* A pre-signature is returned whose R0 has odd y and whose s = k + e*d
\* wrapped around n.
C3_Witness ==
    /\ Returned
    /\ SigParity(sign.ret) = 3
    /\ sign.k + sign.e * sign.d >= n

\* C4: schnorr_pre_sign raises the input-validation error and returns no
\* signature whenever len(msg) # 32, or seckey does not decode to d0 in
\* [1, n-1], or len(aux_rand) # 32, whatever the other two are; it returns a
\* signature only when all three preconditions hold.
C4_InputValidation ==
    pc = "signed" =>
        LET ok == /\ Len(sign.msg) = 32
                  /\ int_from_bytes(sign.seckey) \in 1..(n - 1)
                  /\ Len(sign.aux_rand) = 32
        IN /\ ~ok => sign.status = "ValueError" /\ "ret" \notin DOMAIN sign
           /\ "ret" \in DOMAIN sign => ok
           /\ sign.status = "return" <=> "ret" \in DOMAIN sign

\* The call is rejected for its aux_rand alone: msg and seckey are valid.
C4_Witness ==
    /\ pc = "signed"
    /\ sign.status = "ValueError"
    /\ Len(sign.msg) = 32
    /\ int_from_bytes(sign.seckey) \in 1..(n - 1)
    /\ Len(sign.aux_rand) # 32

\* The exceptions that end a call without a result.
FatalErrors == {"RuntimeError"} \cup AssertOutcomes

\* -P: the point with the same x and y negated.
Negated(P) == IF P = None THEN None ELSE <<P[1], (p - P[2]) % p>>

\* C5: when the derived nonce k0 is 0, or T is the negation of R = k0*G (so
\* that R0 = R + T is the identity), schnorr_pre_sign ends in a fatal error
\* and returns no signature bytes.
C5_FatalOnIdentity ==
    (/\ pc = "signed"
     /\ "k0" \in DOMAIN sign
     /\ sign.k0 = 0 \/ sign.T = Negated(mul(G, sign.k0)))
        => sign.status \in FatalErrors /\ "ret" \notin DOMAIN sign

\* The nonce is not 0 and T = -R: the call has ended in the failed assertion.
C5_Witness ==
    /\ pc = "signed"
    /\ "k0" \in DOMAIN sign
    /\ sign.k0 # 0
    /\ sign.T = Negated(mul(G, sign.k0))
    /\ sign.status \in AssertOutcomes

\* C6: pubkey_gen returns the 32-byte x-coordinate of d0*G for d0 in
\* [1, n-1] and fails otherwise; the signing exponent d of schnorr_pre_sign
\* is in [1, n-1] and d*G is the even-y point lift_x(int(pubkey_gen(seckey))).
C6_PubkeyAndExponent ==
    /\ pc = "pubkey" =>
        LET d0 == int_from_bytes(pub.seckey)
        IN IF d0 \in 1..(n - 1)
           THEN /\ pub.status = "return"
                /\ Len(pub.ret) = 32
                /\ int_from_bytes(pub.ret) = mul(G, d0)[1]
           ELSE pub.status = "ValueError" /\ "ret" \notin DOMAIN pub
    /\ (pc = "signed" /\ "d" \in DOMAIN sign) =>
        /\ sign.d \in 1..(n - 1)
        /\ sign.d \in {sign.d0, n - sign.d0}
        /\ mul(G, sign.d)[2] % 2 = 0
        /\ mul(G, sign.d) = lift_x(int_from_bytes(SignerPubkey))

\* A pre-signature is returned for a secret key whose point has odd y: the
\* exponent is the negated key.
C6_Witness ==
    /\ Returned
    /\ sign.d = n - sign.d0

\* C7: with msg, seckey and aux_rand fixed, any other adaptor point T2 # T
\* feeds a different byte string into the "BIP0340/nonce" hash, while the
\* public point P is the same.
C7_NonceInputDependsOnT ==
    (pc = "signed" /\ "nonce_input" \in DOMAIN sign) =>
        \A T2 \in GroupPoints \ {None, sign.T} :
            /\ sign.t \o bytes_from_point(T2) \o bytes_from_point(sign.P) \o sign.msg
                   # sign.nonce_input
            /\ sign.P = mul(G, sign.d0)

\* C8: for all scalars k1, k2 in [0, n), point_add(k1*G, k2*G) is
\* ((k1 + k2) mod n)*G, also when a scalar or the sum is 0, when k1 = k2
\* (doubling) and when k1 + k2 = n (inverse points).
C8_MulIsHomomorphism ==
    pc = "added" =>
        \A k1, k2 \in 0..(n - 1) :
            (add.P1 = mul(G, k1) /\ add.P2 = mul(G, k2))
                => add.ret = mul(G, (k1 + k2) % n)

\* point_add has added two inverse points, neither the identity.
C8_Witness ==
    /\ pc = "added"
    /\ add.P1 # None
    /\ add.P2 = Negated(add.P1)
    /\ add.ret = None

\* x^3 + 7 is a square modulo p.
IsResidue(x0) == \E y0 \in 0..(p - 1) : (y0 * y0 - x0 * x0 * x0 - 7) % p = 0

\* C9: lift_x(x), lift_x_R0(x, 2) and lift_x_R0(x, 3) are defined exactly
\* when x < p and x^3 + 7 is a quadratic residue; the result is then on the
\* curve with x-coordinate x and y in [0, p), of even y for lift_x and for
\* parity 2 (where it equals lift_x(x)) and of odd y for parity 3.
C9_LiftParity ==
    pc = "lifted" =>
        /\ lift.ret # None <=> (lift.x < p /\ IsResidue(lift.x))
        /\ lift.ret # None =>
            /\ OnCurve(lift.ret)
            /\ lift.ret[1] = lift.x
            /\ lift.fn = "lift_x" => lift.ret[2] % 2 = 0
            /\ lift.fn = "lift_x_R0" =>
                /\ lift.ret[2] % 2 = (IF lift.parity = 2 THEN 0 ELSE 1)
                /\ lift.parity = 2 => lift.ret = lift_x(lift.x)
                /\ lift.parity = 3 => lift.ret = Negated(lift_x(lift.x))

\* lift_x_R0 has returned a point for parity 3.
C9_Witness ==
    /\ pc = "lifted"
    /\ lift.fn = "lift_x_R0"
    /\ lift.parity = 3
    /\ lift.ret # None

\* C10: point_add of two values that are each the identity or on the curve
\* is the identity or on the curve, and so is every value of R and P in the
\* loop of point_mul, before and after each of its 256 iterations.
C10_Closure ==
    /\ (pc = "added" /\ OnCurve(add.P1) /\ OnCurve(add.P2)) => OnCurve(add.ret)
    /\ (pc = "mul" /\ OnCurve(loop.P0)) => (OnCurve(loop.R) /\ OnCurve(loop.P))

\* point_mul has run all its iterations on a scalar of several bits and
\* returns a point.
C10_Witness ==
    /\ pc = "mul"
    /\ loop.i = range256
    /\ loop.n > 2
    /\ loop.P0 # None
    /\ loop.R # None
====
